---- MODULE Spec2Model ----
(***************************************************************************)
(* Ice breaker pipeline: process -> ice_break_with -> lookup (ReAct agent  *)
(* executor loop) -> scrape_linkedin_profile -> prompt | llm | parser.     *)
(* Two invocations (two requests to /process) run interleaved; every       *)
(* network call (model, search, data source) is one step.                  *)
(***************************************************************************)
EXTENDS Integers, Sequences, FiniteSets, TLC

VARIABLES
    pending,            \* requests posted to /process and not yet picked up
    pc,                 \* where each invocation is
    name,               \* process: data.get("name")
    iterations,         \* AgentExecutor._call: iterations
    llm_output,         \* the text the agent's model answered last
    step,               \* the parsed output of the agent's last plan
    observation,        \* the last tool observation
    llm_calls,          \* model calls made by the agent in this lookup
    linkedin_username,  \* ice_break_with: what lookup returned
    request,            \* scrape_linkedin_profile: the GET that was sent
    response,           \* scrape_linkedin_profile: what requests.get returned
    linkedin_data,      \* ice_break_with: what scrape_linkedin_profile returned
    information,        \* the document put into the summary prompt
    completion,         \* the summary model's raw text
    calls,              \* the stages ice_break_with has called, in order
    outcome,            \* how ice_break_with ended
    reply,              \* the JSON body process answered with
    summary_output_parser   \* the module-level parser instance

locals == <<pc, name, iterations, llm_output, step, observation, llm_calls, linkedin_username,
            request, response, linkedin_data, information, completion, calls,
            outcome, reply>>

vars == <<pending, locals, summary_output_parser>>

\* The requests served by the web endpoint (two, so that they can interleave).
Invocations == {1, 2}

\* AgentExecutor(agent=agent, tools=tools_for_agent, verbose=True): no
\* max_iterations argument is passed, so the executor's default of 15 applies.
max_iterations == 15

----------------------------------------------------------------------------
(* JSON values.  A value is [t, v]: t the JSON type, v a sequence of       *)
(* strings (the characters of a string, the items of a list).              *)

JNull == [t |-> "null", v |-> <<>>]
JStr(s) == [t |-> "str", v |-> s]
JNum(n) == [t |-> "num", v |-> <<n>>]
JList(items) == [t |-> "list", v |-> items]
\* a list holding an item that is not a string
JListOfNum(items) == [t |-> "list_of_num", v |-> items]
JDict == [t |-> "dict", v |-> <<>>]

\* Python's None where a local holds no value
None == JNull

\* Text is a sequence of tokens; " " is whitespace.  str.strip().
RECURSIVE LStrip(_)
LStrip(s) == IF s # <<>> /\ Head(s) = " " THEN LStrip(Tail(s)) ELSE s

RECURSIVE RStrip(_)
RStrip(s) ==
    IF s # <<>> /\ s[Len(s)] = " " THEN RStrip(SubSeq(s, 1, Len(s) - 1)) ELSE s

Strip(s) == RStrip(LStrip(s))

\* Bound on the whitespace the model puts around a payload.
MaxPad == 1

RECURSIVE Spaces(_)
Spaces(n) == IF n = 0 THEN {<<>>} ELSE Spaces(n - 1) \cup {<<" ">> \o s : s \in Spaces(n - 1)}

Padded(s) == {l \o s \o r : l \in Spaces(MaxPad), r \in Spaces(MaxPad)}

----------------------------------------------------------------------------
(* Resolver: lookup(name), an AgentExecutor over a ReAct agent with one    *)
(* tool.                                                                   *)

Names == {"Yannick Folla"}

\* tools_for_agent: the executor's name_to_tool_map has this one name
ToolName == "crawl Google 4 linkedin profile"
name_to_tool_map == {<<ToolName>>}

\* A model response is a sequence of segments "<tag>: <body>".
Seg(tag, body) == [tag |-> tag, body |-> body]
Thought == Seg("Thought", <<"t">>)

ActionTexts ==
    {<<Thought, Seg("Action", t), Seg("Action Input", <<"q">>)>> :
        t \in Padded(<<ToolName>>) \cup {<<"search">>}}
FinalTexts ==
    {<<Thought, Seg("Final Answer", a)>> : a \in Padded(<<"u">>) \cup Spaces(MaxPad)}
BothTexts ==
    {<<Thought, Seg("Action", <<ToolName>>), Seg("Action Input", <<"q">>),
       Seg("Final Answer", <<"u">>)>>}
NeitherTexts ==
    {<<Thought>>, <<Thought, Seg("Action", <<ToolName>>)>>,
     <<Seg("Text", <<"u">>)>>}
ModelTexts == ActionTexts \cup FinalTexts \cup BothTexts \cup NeitherTexts

NoText == <<>>

Tagged(text, tag) == {i \in DOMAIN text : text[i].tag = tag}
Min(S) == CHOOSE x \in S : \A y \in S : x <= y
Max(S) == CHOOSE x \in S : \A y \in S : x >= y

\* re.search(r"Action\s*\d*\s*:[\s]*(.*?)[\s]*Action\s*\d*\s*Input\s*\d*\s*:[\s]*(.*)")
ActionMatch(text) ==
    \E i \in Tagged(text, "Action") : \E j \in Tagged(text, "Action Input") : i < j
\* FINAL_ANSWER_ACTION in text
IncludesAnswer(text) == Tagged(text, "Final Answer") # {}

NoStep == [kind |-> "none", tool |-> <<>>, tool_input |-> <<>>, output |-> <<>>]

AgentAction(tool, tool_input) ==
    [kind |-> "AgentAction", tool |-> tool, tool_input |-> tool_input, output |-> <<>>]
AgentFinish(output) ==
    [kind |-> "AgentFinish", tool |-> <<>>, tool_input |-> <<>>, output |-> output]
ParseFailure == [NoStep EXCEPT !.kind = "OutputParserException"]

\* A parser that guesses: text matching neither grammar taken as an empty answer
ReActParseGuessing(text) ==
    IF ActionMatch(text) /\ ~IncludesAnswer(text)
    THEN AgentAction(Strip(text[Min(Tagged(text, "Action"))].body),
                     Strip(text[Max(Tagged(text, "Action Input"))].body))
    ELSE IF IncludesAnswer(text) /\ ~ActionMatch(text)
         THEN AgentFinish(Strip(text[Max(Tagged(text, "Final Answer"))].body))
         ELSE IF ActionMatch(text) THEN ParseFailure ELSE AgentFinish(<<>>)

\* A parser that takes a text holding an action for an action, whether or not
\* it also holds a final answer
ReActParseActionFirst(text) ==
    IF ActionMatch(text)
    THEN AgentAction(Strip(text[Min(Tagged(text, "Action"))].body),
                     Strip(text[Min(Tagged(text, "Action Input"))].body))
    ELSE IF IncludesAnswer(text)
         THEN AgentFinish(Strip(text[Max(Tagged(text, "Final Answer"))].body))
         ELSE ParseFailure

\* ReActSingleInputOutputParser.parse, the output parser create_react_agent installs
ReActParse(text) ==
    IF ActionMatch(text)
    THEN IF IncludesAnswer(text)
         THEN ParseFailure
         ELSE LET i == Min({k \in Tagged(text, "Action") :
                               \E j \in Tagged(text, "Action Input") : k < j})
                  j == Min({k \in Tagged(text, "Action Input") : i < k})
              IN AgentAction(Strip(text[i].body), Strip(text[j].body))
    ELSE IF IncludesAnswer(text)
         THEN AgentFinish(Strip(text[Max(Tagged(text, "Final Answer"))].body))
         ELSE ParseFailure

\* An off-by-one loop test
ShouldContinueOffByOne(n) == n <= max_iterations

\* AgentExecutor._should_continue(iterations, time_elapsed), max_execution_time None
ShouldContinue(n) == n < max_iterations

\* return_stopping_response with early_stopping_method "force" (the default)
StoppingResponse == <<"Agent stopped due to iteration limit or time limit.">>

\* what get_profile_url_tavily's search.run gives back: one result, or none
SearchResults == {<<"result">>, <<"no result">>}
\* InvalidTool's answer to a tool name that is not registered
InvalidToolObservation == <<"is not a valid tool, try one of">>
NoObservation == <<>>

----------------------------------------------------------------------------
(* Profile Data Source: scrape_linkedin_profile.                           *)

EmptyDoc == [k \in {} |-> JNull]
Docs(keys, values) == UNION {[S -> values] : S \in SUBSET keys}

\* dict.get(k): the value, or None
Get(d, k) == IF k \in DOMAIN d THEN d[k] ELSE None

\* v == w for the three literals of the filter
PyEq(v, w) == v.t = w.t /\ v.v = w.v

\* A filter that forgets the denylist
KeptWithoutDenylist(k, v) == ~ \E w \in {JList(<<>>), JStr(<<>>), JNull} : PyEq(v, w)

\* v not in ([], "", None) and k not in ["certifications"]
Kept(k, v) ==
    /\ ~ \E w \in {JList(<<>>), JStr(<<>>), JNull} : PyEq(v, w)
    /\ k \notin {"certifications"}

\* data = {k: v for k, v in data.items() if ...}
CleanData(data) == [k \in {x \in DOMAIN data : Kept(x, data[x])} |-> data[k]]

MockUrl == <<"gist yfolla_linkedin.json">>
ApiEndpoint == <<"https://api.scrapin.io/enrichment/profile">>
NoRequest == [url |-> <<>>, linkedInUrl |-> <<>>]

\* the GET scrape_linkedin_profile sends: the fixture in mock mode, else the API
\* with the profile URL as a parameter
ProfileRequest(linkedin_profile_url, mock) ==
    IF mock THEN [url |-> MockUrl, linkedInUrl |-> <<>>]
    ELSE [url |-> ApiEndpoint, linkedInUrl |-> linkedin_profile_url]

\* What requests.get does: raises (exc), or returns a body that is JSON or not;
\* a JSON body has a "person" that is an object, null, or no "person" at all.
HttpResponse(exc, is_json, person_kind, person) ==
    [exc |-> exc, is_json |-> is_json, person_kind |-> person_kind, person |-> person]
NoResponse == HttpResponse("none", FALSE, "absent", EmptyDoc)

RequestExceptions == {"ConnectionError", "Timeout"}

ResponsesOver(persons) ==
    {HttpResponse(e, FALSE, "absent", EmptyDoc) : e \in RequestExceptions}
    \cup {HttpResponse("", FALSE, "absent", EmptyDoc)}
    \cup {HttpResponse("", TRUE, k, EmptyDoc) : k \in {"absent", "null"}}
    \cup {HttpResponse("", TRUE, "object", p) : p \in persons}

\* The profile objects the pipeline is run on
PipelineValues == {JNull, JStr(<<>>), JStr(<<"p">>)}
PipelinePersons ==
    Docs({"photoUrl"}, PipelineValues)
    \cup {[photoUrl |-> v, certifications |-> JList(<<"c1">>)] : v \in PipelineValues}
    \cup {[certifications |-> JList(<<>>)]}

\* The profile objects the filter alone is run on
Keys == {"name", "certifications", "bio", "skills"}
Values == {JNull, JStr(<<>>), JStr(<<"X">>), JList(<<>>), JList(<<"c1">>), JList(<<"s1">>), JDict}
Persons == Docs(Keys, Values)

\* A scraper that takes a missing "person" for an empty one: .get("person", {})
ScrapeRaisesDefaultPerson(r) ==
    IF r.exc # "" THEN r.exc ELSE IF ~r.is_json THEN "JSONDecodeError" ELSE ""

\* response.json().get("person") and the filter: the exception raised, or ""
ScrapeRaises(r) ==
    IF r.exc # "" THEN r.exc
    ELSE IF ~r.is_json THEN "JSONDecodeError"
    ELSE IF r.person_kind # "object" THEN "AttributeError"
    ELSE ""

----------------------------------------------------------------------------
(* Extractor: summary_prompt_template | llm | summary_output_parser.       *)

\* The model's raw text: a JSON object alone, inside a code fence with prose
\* around it, or after prose without a fence; or text with no JSON in it.
Raw(wrap, json) == [wrap |-> wrap, json |-> json]
NoCompletion == Raw("", EmptyDoc)

SummaryValues == {JNull, JNum("7"), JStr(<<"S">>)}
FactsValues == {JNull, JStr(<<"f1">>), JList(<<>>), JList(<<"f1">>), JListOfNum(<<"7">>)}
Objects ==
    UNION {{[k \in S |-> IF k = "summary" THEN sv ELSE fv] :
               sv \in SummaryValues, fv \in FactsValues} : S \in SUBSET {"summary", "facts"}}
GoodObject == [summary |-> JStr(<<"S">>), facts |-> JList(<<"f1">>)]
Completions ==
    {Raw("bare", o) : o \in Objects}
    \cup {Raw(w, o) : w \in {"fenced", "prose"}, o \in {GoodObject, [summary |-> JStr(<<"S">>)]}}
    \cup {Raw("none", EmptyDoc)}

\* parse_json_markdown: the whole text, or the inside of a code fence
JsonFound(raw) == raw.wrap \in {"bare", "fenced"}

\* A validation that asks for the keys and not for their types
ValidatesKeysOnly(obj) == "summary" \in DOMAIN obj /\ "facts" \in DOMAIN obj

\* Summary.model_validate: summary: str, facts: List[str], both required
Validates(obj) ==
    /\ "summary" \in DOMAIN obj /\ obj["summary"].t = "str"
    /\ "facts" \in DOMAIN obj /\ obj["facts"].t = "list"

SummaryOf(obj) == [summary |-> obj["summary"], facts |-> obj["facts"]]
NoSummary == [summary |-> JNull, facts |-> JNull]

\* PydanticOutputParser.parse: the Summary, or OutputParserException with
\* llm_output the text (no JSON) or the JSON object dumped again (not valid)
Parsed(ok, result, carried) == [ok |-> ok, result |-> result, llm_output |-> carried]

ParseSummary(raw) ==
    IF ~JsonFound(raw) THEN Parsed(FALSE, NoSummary, raw)
    ELSE IF ~Validates(raw.json) THEN Parsed(FALSE, NoSummary, Raw("bare", raw.json))
    ELSE Parsed(TRUE, SummaryOf(raw.json), NoCompletion)

\* Summary.to_dict
ToDict(s) == [summary |-> s.summary, facts |-> s.facts]

----------------------------------------------------------------------------
(* How ice_break_with ends: it returns (result, photo) or an exception     *)
(* leaves it; the exception carries the agent text or the parser's         *)
(* llm_output.                                                             *)

Outcome(kind, exc, text, carried, result, photo) ==
    [kind |-> kind, exc |-> exc, text |-> text, llm_output |-> carried,
     result |-> result, photo |-> photo]
NoOutcome == Outcome("none", "", NoText, NoCompletion, NoSummary, None)
Raise(exc, text, carried) == Outcome("raise", exc, text, carried, NoSummary, None)
Return(result, photo) == Outcome("return", "", NoText, NoCompletion, result, photo)

NoReply == [summary_and_facts |-> ToDict(NoSummary), picture_url |-> None]
Placeholder == JStr(<<"https://via.placeholder.com/300x300?text=No+Image">>)
\* Python truth of a JSON value
Truthy(v) == v.t # "null" /\ v.v # <<>>

ParserInstance == [pydantic_object |-> "Summary"]

InitWith(posted) ==
    /\ pending = posted
    /\ pc = [i \in Invocations |-> "idle"]
    /\ name = [i \in Invocations |-> ""]
    /\ iterations = [i \in Invocations |-> 0]
    /\ llm_output = [i \in Invocations |-> NoText]
    /\ step = [i \in Invocations |-> NoStep]
    /\ observation = [i \in Invocations |-> NoObservation]
    /\ llm_calls = [i \in Invocations |-> 0]
    /\ linkedin_username = [i \in Invocations |-> <<>>]
    /\ request = [i \in Invocations |-> NoRequest]
    /\ response = [i \in Invocations |-> NoResponse]
    /\ linkedin_data = [i \in Invocations |-> EmptyDoc]
    /\ information = [i \in Invocations |-> EmptyDoc]
    /\ completion = [i \in Invocations |-> NoCompletion]
    /\ calls = [i \in Invocations |-> <<>>]
    /\ outcome = [i \in Invocations |-> NoOutcome]
    /\ reply = [i \in Invocations |-> NoReply]
    /\ summary_output_parser = ParserInstance

\* One request: the service handles a request from end to end.
Init == InitWith({1})

\* The agent executor's locals go when lookup is left.
LeaveLookup(self) ==
    /\ iterations' = [iterations EXCEPT ![self] = 0]
    /\ step' = [step EXCEPT ![self] = NoStep]
    /\ observation' = [observation EXCEPT ![self] = NoObservation]
    /\ llm_calls' = [llm_calls EXCEPT ![self] = 0]

\* An exception leaves ice_break_with for the caller.
Raised(self, o) ==
    /\ pc' = [pc EXCEPT ![self] = "raised"]
    /\ outcome' = [outcome EXCEPT ![self] = o]

\* process: name = data.get("name"); ice_break_with(name) enters lookup(name)
Process(self) ==
    /\ self \in pending
    /\ pc[self] = "idle"
    /\ pending' = pending \ {self}
    /\ \E n \in Names : name' = [name EXCEPT ![self] = n]
    /\ calls' = [calls EXCEPT ![self] = Append(@, "lookup")]
    /\ pc' = [pc EXCEPT ![self] = "agent_loop"]
    /\ UNCHANGED <<iterations, llm_output, step, observation, llm_calls, linkedin_username,
                   request, response, linkedin_data, information, completion,
                   outcome, reply, summary_output_parser>>

\* The executor returns on an AgentFinish (the model's, or the stopping
\* response's), the last step of the trace; lookup returns result["output"] to
\* ice_break_with
LookupReturns(self, output) ==
    /\ linkedin_username' = [linkedin_username EXCEPT ![self] = output]
    /\ pc' = [pc EXCEPT ![self] = "scrape"]
    /\ step' = [step EXCEPT ![self] = AgentFinish(output)]
    /\ iterations' = [iterations EXCEPT ![self] = 0]
    /\ observation' = [observation EXCEPT ![self] = NoObservation]
    /\ llm_calls' = [llm_calls EXCEPT ![self] = 0]
    /\ UNCHANGED outcome

\* One pass of the executor's while loop up to the parsed plan: the model is
\* called and its text parsed (handle_parsing_errors is off: a parse failure is
\* raised as ValueError).
Plan(self, texts) ==
    /\ pc[self] = "agent_loop"
    /\ ShouldContinue(iterations[self])
    /\ \/ /\ Raised(self, Raise("APIError", NoText, NoCompletion))
          /\ LeaveLookup(self)
          /\ UNCHANGED <<llm_output, linkedin_username>>
       \/ \E text \in texts :
            LET parsed == ReActParse(text) IN
            /\ llm_output' = [llm_output EXCEPT ![self] = text]
            /\ CASE parsed.kind = "OutputParserException" ->
                    /\ Raised(self, Raise("ValueError", text, NoCompletion))
                    /\ LeaveLookup(self)
                    /\ UNCHANGED linkedin_username
                 [] parsed.kind = "AgentFinish" ->
                    LookupReturns(self, parsed.output)
                 [] parsed.kind = "AgentAction" ->
                    /\ step' = [step EXCEPT ![self] = parsed]
                    /\ llm_calls' = [llm_calls EXCEPT ![self] = @ + 1]
                    /\ pc' = [pc EXCEPT ![self] = "perform"]
                    /\ UNCHANGED <<iterations, observation, linkedin_username, outcome>>
    /\ UNCHANGED <<pending, name, request, response, linkedin_data, information,
                   completion, calls, reply, summary_output_parser>>

\* _perform_agent_action: the named tool is run if it is registered, InvalidTool
\* otherwise; the observation joins intermediate_steps and iterations += 1
PerformAgentAction(self) ==
    /\ pc[self] = "perform"
    /\ IF step[self].tool \in name_to_tool_map
       THEN \E r \in SearchResults : observation' = [observation EXCEPT ![self] = r]
       ELSE observation' = [observation EXCEPT ![self] = InvalidToolObservation]
    /\ iterations' = [iterations EXCEPT ![self] = @ + 1]
    /\ pc' = [pc EXCEPT ![self] = "agent_loop"]
    /\ UNCHANGED <<pending, name, llm_output, step, llm_calls, linkedin_username, request,
                   response,
                   linkedin_data, information, completion, calls, outcome, reply,
                   summary_output_parser>>

\* The loop is left with the budget used up: return_stopping_response
ReturnStoppingResponse(self) ==
    /\ pc[self] = "agent_loop"
    /\ ~ShouldContinue(iterations[self])
    /\ LookupReturns(self, StoppingResponse)
    /\ UNCHANGED <<pending, name, llm_output, request, response, linkedin_data, information,
                   completion, calls, reply, summary_output_parser>>

\* scrape_linkedin_profile(linkedin_profile_url=linkedin_username): requests.get,
\* response.json().get("person"), the filter, return data
ScrapeLinkedinProfile(self, responses) ==
    /\ pc[self] = "scrape"
    /\ calls' = [calls EXCEPT ![self] = Append(@, "scrape")]
    /\ request' = [request EXCEPT ![self] = ProfileRequest(linkedin_username[self], FALSE)]
    /\ \E r \in responses :
          /\ response' = [response EXCEPT ![self] = r]
          /\ IF ScrapeRaises(r) # ""
             THEN /\ Raised(self, Raise(ScrapeRaises(r), NoText, NoCompletion))
                  /\ UNCHANGED linkedin_data
             ELSE /\ linkedin_data' = [linkedin_data EXCEPT ![self] = CleanData(r.person)]
                  /\ pc' = [pc EXCEPT ![self] = "chain"]
                  /\ UNCHANGED outcome
    /\ UNCHANGED <<pending, name, iterations, llm_output, step, observation, llm_calls,
                   linkedin_username, information, completion, reply,
                   summary_output_parser>>

\* A document kept in one module-level slot that every invocation reads
InformationShared(self) == linkedin_data[1]

\* chain.invoke({"information": linkedin_data})
Information(self) == linkedin_data[self]

\* The photo read from the unfiltered person object
PhotoUnfiltered(self) == Get(response[self].person, "photoUrl")

\* return result, linkedin_data.get("photoUrl")
Photo(self) == Get(linkedin_data[self], "photoUrl")

\* chain = summary_prompt_template | llm | summary_output_parser; chain.invoke;
\* return result, linkedin_data.get("photoUrl")
ChainInvoke(self, completions) ==
    /\ pc[self] = "chain"
    /\ calls' = [calls EXCEPT ![self] = Append(@, "chain")]
    /\ information' = [information EXCEPT ![self] = Information(self)]
    /\ \/ /\ Raised(self, Raise("APIError", NoText, NoCompletion))
          /\ UNCHANGED completion
       \/ \E raw \in completions :
            LET p == ParseSummary(raw) IN
            /\ completion' = [completion EXCEPT ![self] = raw]
            /\ IF p.ok
               THEN /\ outcome' = [outcome EXCEPT ![self] = Return(p.result, Photo(self))]
                    /\ pc' = [pc EXCEPT ![self] = "returned"]
               ELSE Raised(self, Raise("OutputParserException", NoText, p.llm_output))
    /\ UNCHANGED <<pending, name, iterations, llm_output, step, observation, llm_calls,
                   linkedin_username, request, response, linkedin_data, reply,
                   summary_output_parser>>

\* process: return jsonify({...})
Jsonify(self) ==
    /\ pc[self] = "returned"
    /\ reply' = [reply EXCEPT ![self] =
                    [summary_and_facts |-> ToDict(outcome[self].result),
                     picture_url |-> IF Truthy(outcome[self].photo)
                                     THEN outcome[self].photo ELSE Placeholder]]
    /\ pc' = [pc EXCEPT ![self] = "responded"]
    /\ UNCHANGED <<pending, name, iterations, llm_output, step, observation, llm_calls,
                   linkedin_username, request, response, linkedin_data, information,
                   completion, calls, outcome, summary_output_parser>>

Next ==
    \E self \in Invocations :
        \/ Process(self)
        \/ Plan(self, ModelTexts)
        \/ PerformAgentAction(self)
        \/ ReturnStoppingResponse(self)
        \/ ScrapeLinkedinProfile(self, ResponsesOver(PipelinePersons))
        \/ ChainInvoke(self, Completions)
        \/ Jsonify(self)

Spec == Init /\ [][Next]_vars

\* The filter alone: lookup has returned a URL, and the data source answers with
\* any profile object over Keys and Values.
FilterInit ==
    /\ pending = {}
    /\ pc = [i \in Invocations |-> IF i = 1 THEN "scrape" ELSE "idle"]
    /\ name = [i \in Invocations |-> IF i = 1 THEN "Yannick Folla" ELSE ""]
    /\ iterations = [i \in Invocations |-> 0]
    /\ llm_output = [i \in Invocations |->
                        IF i = 1 THEN <<Thought, Seg("Final Answer", <<"u">>)>> ELSE NoText]
    /\ step = [i \in Invocations |-> IF i = 1 THEN AgentFinish(<<"u">>) ELSE NoStep]
    /\ observation = [i \in Invocations |-> NoObservation]
    /\ llm_calls = [i \in Invocations |-> 0]
    /\ linkedin_username = [i \in Invocations |-> IF i = 1 THEN <<"u">> ELSE <<>>]
    /\ request = [i \in Invocations |-> NoRequest]
    /\ response = [i \in Invocations |-> NoResponse]
    /\ linkedin_data = [i \in Invocations |-> EmptyDoc]
    /\ information = [i \in Invocations |-> EmptyDoc]
    /\ completion = [i \in Invocations |-> NoCompletion]
    /\ calls = [i \in Invocations |-> IF i = 1 THEN <<"lookup">> ELSE <<>>]
    /\ outcome = [i \in Invocations |-> NoOutcome]
    /\ reply = [i \in Invocations |-> NoReply]
    /\ summary_output_parser = ParserInstance

FilterNext == \E self \in Invocations : ScrapeLinkedinProfile(self, ResponsesOver(Persons))

FilterSpec == FilterInit /\ [][FilterNext]_vars

\* Two requests at once, on one input of each kind.
ConcTexts ==
    {<<Thought, Seg("Action", <<ToolName>>), Seg("Action Input", <<"q">>)>>,
     <<Thought, Seg("Final Answer", <<"u">>)>>,
     <<Thought>>}
ConcPersons == {[photoUrl |-> JStr(<<"p">>)], [photoUrl |-> JStr(<<>>)]}
ConcResponses ==
    {HttpResponse("Timeout", FALSE, "absent", EmptyDoc),
     HttpResponse("", TRUE, "absent", EmptyDoc)}
    \cup {HttpResponse("", TRUE, "object", p) : p \in ConcPersons}
ConcCompletions ==
    {Raw("bare", GoodObject), Raw("fenced", [summary |-> JStr(<<"S">>)]), Raw("none", EmptyDoc)}

ConcInit == InitWith(Invocations)

ConcNext ==
    \E self \in Invocations :
        \/ Process(self)
        \/ Plan(self, ConcTexts)
        \/ PerformAgentAction(self)
        \/ ReturnStoppingResponse(self)
        \/ ScrapeLinkedinProfile(self, ConcResponses)
        \/ ChainInvoke(self, ConcCompletions)
        \/ Jsonify(self)

ConcSpec == ConcInit /\ [][ConcNext]_vars

\* The statements run one after another and every call comes back (with a value
\* or an exception), so a lookup that can take a step takes it.
FairSpec ==
    /\ Spec
    /\ \A self \in Invocations :
          /\ WF_vars(Plan(self, ModelTexts))
          /\ WF_vars(PerformAgentAction(self))
          /\ WF_vars(ReturnStoppingResponse(self))

----------------------------------------------------------------------------
(* Properties.                                                             *)

Range(f) == {f[x] : x \in DOMAIN f}
InLookup(i) == pc[i] \in {"agent_loop", "perform"}
\* lookup came back to ice_break_with with a value
LookupReturned(i) ==
    \/ pc[i] \in {"scrape", "chain", "returned", "responded"}
    \/ pc[i] = "raised" /\ "scrape" \in Range(calls[i])
    \/ pc[i] = "raised" /\ outcome[i].exc \notin {"APIError", "ValueError"}
RunEnded(i) == pc[i] \in {"raised", "responded"}
\* any step of invocation i
Step(i) ==
    \/ Process(i)
    \/ Plan(i, ModelTexts)
    \/ PerformAgentAction(i)
    \/ ReturnStoppingResponse(i)
    \/ ScrapeLinkedinProfile(i, ResponsesOver(PipelinePersons))
    \/ ChainInvoke(i, Completions)
    \/ Jsonify(i)

\* C1: whenever lookup returns an empty string, the run ends with a
\* ProfileNotFound failure and scrape_linkedin_profile is never called in it.
C1_EmptyLookupAborts ==
    \A i \in Invocations :
        (LookupReturned(i) /\ linkedin_username[i] = <<>>) =>
            /\ "scrape" \notin Range(calls[i])
            /\ request[i] = NoRequest
            /\ RunEnded(i) => (pc[i] = "raised" /\ outcome[i].exc = "ProfileNotFound")

\* C2: when the loop has used up its step budget without a final answer, lookup
\* ends in a ResolutionIncomplete failure and returns no value to ice_break_with,
\* so that no profile is fetched for a placeholder.
C2_BudgetExhaustedFails ==
    [][\A i \in Invocations :
          (pc[i] = "agent_loop" /\ iterations[i] >= max_iterations /\ pc'[i] # pc[i]) =>
              /\ pc'[i] = "raised"
              /\ outcome'[i].exc = "ResolutionIncomplete"
              /\ linkedin_username'[i] = linkedin_username[i]]_vars

\* C3: whatever the model answers, the loop takes at most max_iterations steps
\* (the step count and the number of model calls never pass the budget) and every
\* lookup that was entered is left again.
C3_StepBudget ==
    /\ [](\A i \in Invocations :
             iterations[i] <= max_iterations /\ llm_calls[i] <= max_iterations)
    /\ \A i \in Invocations : InLookup(i) ~> ~InLookup(i)

\* C3 witness: the budget is used up by a model that answered with an action
\* on every step.
C3_Witness ==
    \E i \in Invocations :
        /\ pc[i] = "agent_loop"
        /\ iterations[i] = max_iterations
        /\ llm_calls[i] = max_iterations
        /\ step[i].kind = "AgentAction"

\* C4: a model response that matches neither the action grammar nor the
\* final-answer grammar stops the loop at that step with the parse error raised to
\* the caller: lookup returns nothing, no profile is fetched, and the invocation
\* takes no further step (no model call, no tool call).
C4_UnparseableStops ==
    \A i \in Invocations :
        (llm_output[i] # NoText /\ ~ActionMatch(llm_output[i])
            /\ ~IncludesAnswer(llm_output[i])) =>
            /\ pc[i] = "raised"
            /\ outcome[i] = Raise("ValueError", llm_output[i], NoCompletion)
            /\ calls[i] = <<"lookup">>
            /\ linkedin_username[i] = <<>>
            /\ request[i] = NoRequest
            /\ ~ENABLED Step(i)

\* C4 witness: the model answered with a lone thought, and the run ended with
\* the parse error.
C4_Witness ==
    \E i \in Invocations :
        /\ llm_output[i] = <<Thought>>
        /\ pc[i] = "raised"
        /\ outcome[i].exc = "ValueError"

\* C5: a step naming a tool outside the registered tool set ends the resolution
\* in an UnknownToolError: no tool runs for the step (no observation is made),
\* the loop does not go on to another model call, and lookup returns no value.
C5_UnknownToolFails ==
    [][\A i \in Invocations :
          (pc[i] = "perform" /\ step[i].tool \notin name_to_tool_map /\ pc'[i] # pc[i]) =>
              /\ pc'[i] = "raised"
              /\ outcome'[i].exc = "UnknownToolError"
              /\ observation'[i] = observation[i]
              /\ iterations'[i] = iterations[i]]_vars

\* the text holds a JSON object with both keys, summary a string and facts a
\* sequence of strings
HoldsValidObject(raw) ==
    /\ raw.wrap \in {"bare", "fenced", "prose"}
    /\ "summary" \in DOMAIN raw.json /\ raw.json["summary"].t = "str"
    /\ "facts" \in DOMAIN raw.json /\ raw.json["facts"].t = "list"
\* the summary model has answered
Answered(i) == completion[i] # NoCompletion
\* a Summary is returned only for a valid object, and holds that object's values
ReturnsOnlyValid(i) ==
    outcome[i].kind = "return" =>
        /\ HoldsValidObject(completion[i])
        /\ outcome[i].result.summary = completion[i].json["summary"]
        /\ outcome[i].result.facts = completion[i].json["facts"]
        /\ outcome[i].result.summary.t = "str"
        /\ outcome[i].result.facts.t = "list"

IsEmptyValue(v) == v = JList(<<>>) \/ v = JStr(<<>>) \/ v = JNull
\* the data source answered with a person object
PersonReturned(i) ==
    /\ "scrape" \in Range(calls[i])
    /\ response[i].exc = "" /\ response[i].is_json /\ response[i].person_kind = "object"

\* C7: the document scrape_linkedin_profile returns has exactly the person's keys
\* other than "certifications" whose value is not empty, each with the person's
\* value; so it has no "certifications" and no empty value.
C7_CleanedDocument ==
    \A i \in Invocations :
        PersonReturned(i) =>
            LET person == response[i].person
                doc == linkedin_data[i]
            IN /\ DOMAIN doc = {k \in DOMAIN person :
                                   k # "certifications" /\ ~IsEmptyValue(person[k])}
               /\ \A k \in DOMAIN doc : doc[k] = person[k] /\ ~IsEmptyValue(doc[k])
               /\ "certifications" \notin DOMAIN doc

\* C7 witness: {name: X, certifications: [c1], bio: "", skills: [s1]} was cleaned
\* to {name: X, skills: [s1]}.
C7_Witness ==
    \E i \in Invocations :
        /\ PersonReturned(i)
        /\ response[i].person =
              [name |-> JStr(<<"X">>), certifications |-> JList(<<"c1">>),
               bio |-> JStr(<<>>), skills |-> JList(<<"s1">>)]
        /\ linkedin_data[i] = [name |-> JStr(<<"X">>), skills |-> JList(<<"s1">>)]

\* the exceptions a failing data source call leaves scrape_linkedin_profile with
DataSourceErrors == {"ConnectionError", "Timeout", "JSONDecodeError", "AttributeError"}

\* C8: when the data source call fails, times out, or answers without a
\* top-level "person" object, the run ends with a data source error raised to
\* the caller of ice_break_with and the summary model is never called.
C8_DataSourceErrorReachesCaller ==
    \A i \in Invocations :
        ("scrape" \in Range(calls[i]) /\ ~PersonReturned(i)) =>
            /\ pc[i] = "raised"
            /\ outcome[i].kind = "raise"
            /\ outcome[i].exc \in DataSourceErrors
            /\ calls[i] = <<"lookup", "scrape">>
            /\ completion[i] = NoCompletion
            /\ information[i] = EmptyDoc
            /\ ~ENABLED Step(i)

\* C8 witness: the data source answered JSON without "person" and the run ended
\* with the error of reading it.
C8_Witness ==
    \E i \in Invocations :
        /\ response[i] = HttpResponse("", TRUE, "absent", EmptyDoc)
        /\ pc[i] = "raised"
        /\ outcome[i].exc = "AttributeError"

\* C9: in a run that returns, the stages were called once each in the order
\* lookup, scrape, chain; the profile was asked for the URL lookup returned; the
\* document given to the summary prompt is the one scrape_linkedin_profile
\* returned; and the pair returned is the parser's Summary with the document's
\* "photoUrl" if it has that key, else None.
C9_ForwardPipeline ==
    \A i \in Invocations :
        outcome[i].kind = "return" =>
            /\ calls[i] = <<"lookup", "scrape", "chain">>
            /\ request[i].url = ApiEndpoint
            /\ request[i].linkedInUrl = linkedin_username[i]
            /\ PersonReturned(i)
            /\ information[i] = linkedin_data[i]
            /\ HoldsValidObject(completion[i])
            /\ outcome[i].result =
                  [summary |-> completion[i].json["summary"],
                   facts |-> completion[i].json["facts"]]
            /\ outcome[i].photo =
                  IF "photoUrl" \in DOMAIN linkedin_data[i]
                  THEN linkedin_data[i]["photoUrl"] ELSE None

\* C9 witness: a run returned the photo of a document that has one, for a person
\* whose certifications were dropped.
C9_Witness ==
    \E i \in Invocations :
        /\ outcome[i].kind = "return"
        /\ response[i].person = [photoUrl |-> JStr(<<"p">>), certifications |-> JList(<<"c1">>)]
        /\ outcome[i].photo = JStr(<<"p">>)
        /\ outcome[i].result = SummaryOf(GoodObject)

\* everything invocation j holds
LocalOf(j) ==
    <<pc[j], name[j], iterations[j], llm_output[j], step[j], observation[j],
      llm_calls[j], linkedin_username[j], request[j], response[j], linkedin_data[j],
      information[j], completion[j], calls[j], outcome[j], reply[j]>>

\* the outcome invocation i has when it runs alone on the answers it was given
OutcomeAlone(i) ==
    /\ "scrape" \in Range(calls[i]) => request[i].linkedInUrl = linkedin_username[i]
    /\ PersonReturned(i) => linkedin_data[i] = CleanData(response[i].person)
    /\ "chain" \in Range(calls[i]) => information[i] = linkedin_data[i]
    /\ Answered(i) =>
          outcome[i] =
              IF ParseSummary(completion[i]).ok
              THEN Return(ParseSummary(completion[i]).result,
                          Get(CleanData(response[i].person), "photoUrl"))
              ELSE Raise("OutputParserException", NoText,
                         ParseSummary(completion[i]).llm_output)
    /\ pc[i] = "responded" => reply[i].summary_and_facts = ToDict(outcome[i].result)

\* C10: two invocations whose steps interleave each end as they would alone:
\* each one's outcome follows from the answers it was given itself, every step
\* changes the state of one invocation only, and the module-level parser is
\* never written.
C10_Independent ==
    /\ [](\A i \in Invocations : OutcomeAlone(i))
    /\ [][/\ \E i \in Invocations :
                \A j \in Invocations \ {i} : LocalOf(j)' = LocalOf(j)
          /\ summary_output_parser' = summary_output_parser]_vars

\* C10 witness: both invocations are between scrape and chain at once, holding
\* different documents.
C10_Witness ==
    /\ pc[1] = "chain" /\ pc[2] = "chain"
    /\ linkedin_data[1] # linkedin_data[2]

\* the trimmed payload of the text's last "Final Answer:"
FinalPayload(text) == Strip(text[Max(Tagged(text, "Final Answer"))].body)

\* the steps of the trace that are in view: a step carries exactly one of an
\* action and a final answer, as did the text it was parsed from
OneOfActionOrFinal(i) ==
    /\ step[i].kind \in {"none", "AgentAction", "AgentFinish"}
    /\ step[i].kind = "AgentAction" =>
          /\ step[i].tool # <<>> /\ step[i].output = <<>>
          /\ ActionMatch(llm_output[i]) /\ ~IncludesAnswer(llm_output[i])
          /\ InLookup(i)
    /\ step[i].kind = "AgentFinish" =>
          /\ step[i].tool = <<>> /\ step[i].tool_input = <<>>
          /\ step[i].output # StoppingResponse =>
                /\ IncludesAnswer(llm_output[i]) /\ ~ActionMatch(llm_output[i])
                /\ step[i].output = FinalPayload(llm_output[i])

\* a final step ended the loop and its final answer is what lookup returned
FinalStepIsLast(i) ==
    step[i].kind = "AgentFinish" =>
        /\ ~InLookup(i)
        /\ LookupReturned(i)
        /\ linkedin_username[i] = step[i].output
        /\ ~ENABLED (Plan(i, ModelTexts) \/ PerformAgentAction(i) \/ ReturnStoppingResponse(i))

\* C11: each step of the loop carries exactly one of a tool action and a final
\* answer, never both; a step is final only with its final answer set; a final
\* step is the last of the trace (after it the agent's model is not called and no
\* search is made: the loop's state stays as it is) and lookup returns that
\* step's final answer.
C11_FinalStepEndsTrace ==
    /\ [](\A i \in Invocations : OneOfActionOrFinal(i) /\ FinalStepIsLast(i))
    /\ [][\A i \in Invocations :
             step[i].kind = "AgentFinish" =>
                 /\ step'[i] = step[i]
                 /\ llm_output'[i] = llm_output[i]
                 /\ llm_calls'[i] = llm_calls[i]
                 /\ iterations'[i] = iterations[i]
                 /\ observation'[i] = observation[i]
                 /\ linkedin_username'[i] = linkedin_username[i]]_vars

\* C11 witness: after one search the model gave a padded final answer; lookup
\* returned it trimmed and the run went on to the data source.
C11_Witness ==
    \E i \in Invocations :
        /\ llm_output[i] = <<Thought, Seg("Final Answer", <<" ", "u", " ">>)>>
        /\ step[i] = AgentFinish(<<"u">>)
        /\ linkedin_username[i] = <<"u">>
        /\ "scrape" \in Range(calls[i])

====
